---- MODULE Spec2Model ----
(***************************************************************************)
(* Model of app/backend/main.py: the Speech Emotion Recognition API.      *)
(*                                                                         *)
(* Two handlers share one classifier, one label encoder and the temp      *)
(* directory:                                                              *)
(*   websocket_endpoint  - a receive/decode/extract/infer/reply loop per  *)
(*                         connection (clients in Sessions);              *)
(*   predict_emotion     - one upload per request (clients in Uploads).   *)
(* Every client has the handler's local variables (data, temp_path, y,    *)
(* sr, feat) and a program counter.  Audio is scaled down: a sample rate  *)
(* of 1 stands for 22050 Hz, so that 3 seconds are 3 samples.             *)
(***************************************************************************)
EXTENDS Integers, Sequences, FiniteSets, TLC

\* ------------------------------------------------------------------ bounds
NumSessions == 2
NumUploads == 2
MaxChunks == 2
MaxSoloChunks == 3

\* ------------------------------------------------------- program constants
MaxDuration == 3
NMels == 64
MaxFrames == 129
HopLength == 512
CanonRate == 1
NaN == 99

Sessions == 1..NumSessions
Uploads == (NumSessions + 1)..(NumSessions + NumUploads)
Clients == Sessions \cup Uploads

\* --------------------------------------------------------------- sequences
RECURSIVE Flatten(_)
Flatten(frames) ==
    IF frames = <<>> THEN <<>> ELSE Head(frames) \o Flatten(Tail(frames))

Zeros(n) == [i \in 1..n |-> 0]

RECURSIVE SumSeq(_)
SumSeq(q) == IF q = <<>> THEN 0 ELSE Head(q) + SumSeq(Tail(q))

Take(q, n) == SubSeq(q, 1, IF n < Len(q) THEN n ELSE Len(q))

\* ------------------------------------------------------------- audio blobs
\* A byte blob is described by what a decoder finds in it: whether the
\* container opens, the audio frames it holds and the stream's sample rate.
Corrupt == [valid |-> FALSE, frames |-> <<>>, rate |-> 0]
NoAudio == [valid |-> TRUE, frames |-> <<>>, rate |-> 1]
NaNClip == [valid |-> TRUE, frames |-> <<<<NaN>>>>, rate |-> 1]
ShortClip == [valid |-> TRUE, frames |-> <<<<1, 0>>>>, rate |-> 2]
LongClip == [valid |-> TRUE, frames |-> <<<<1, 1>>, <<0, 1>>>>, rate |-> 1]
Blobs == {Corrupt, NoAudio, NaNClip, ShortClip, LongClip}

\* ------------------------------------------------------------ AudioDecoder
NoPCM == [ok |-> FALSE, y |-> <<>>, sr |-> 0]

\* websocket_endpoint: av.open, decode every audio frame, concatenate.
\* av.open raises on bytes that are no container.
AvOpenRaises(blob) == ~blob.valid

AvDecode(blob) ==
    IF ~blob.valid THEN NoPCM
    ELSE IF blob.frames = <<>> THEN NoPCM
    ELSE [ok |-> TRUE, y |-> Flatten(blob.frames), sr |-> blob.rate]

\* Nearest-neighbour stand-in for the resampler of librosa.load.
Resample(q, from, to) ==
    IF from = to THEN q
    ELSE [i \in 1..((Len(q) * to) \div from) |-> q[((i - 1) * from) \div to + 1]]

\* predict_emotion: librosa.load(path, sr=22050, duration=3.0).
LibrosaLoad(blob) ==
    IF ~blob.valid THEN NoPCM
    ELSE [ok |-> TRUE,
          y |-> Resample(Take(Flatten(blob.frames), blob.rate * MaxDuration),
                         blob.rate, CanonRate),
          sr |-> CanonRate]

\* -------------------------------------------------------- FeatureExtractor
None == [ok |-> FALSE, sig |-> <<>>, sr |-> 0, shape |-> <<>>]

TargetLen(rate) == rate * MaxDuration

\* The buffer padded when short and otherwise left at its length.
FixLengthNoCut(samples, rate) ==
    IF Len(samples) < TargetLen(rate)
    THEN samples \o Zeros(TargetLen(rate) - Len(samples))
    ELSE samples

\* The buffer cut to its last target_len samples.
FixLengthKeepLast(samples, rate) ==
    IF Len(samples) < TargetLen(rate)
    THEN samples \o Zeros(TargetLen(rate) - Len(samples))
    ELSE SubSeq(samples, Len(samples) - TargetLen(rate) + 1, Len(samples))

\* if len(y) < target_len: np.pad(y, (0, target_len - len(y))) else y[:target_len]
FixLength(samples, rate) ==
    IF Len(samples) < TargetLen(rate)
    THEN samples \o Zeros(TargetLen(rate) - Len(samples))
    ELSE SubSeq(samples, 1, TargetLen(rate))

\* librosa.feature.melspectrogram rejects an empty or non-finite buffer.
MelRaises(buf) == buf = <<>> \/ \E i \in 1..Len(buf) : buf[i] = NaN

\* librosa's STFT (centered, hop_length 512) gives 1 + n \div 512 frames for
\* n samples.  A spectrogram is represented by its frame axis: column i of
\* the 64 x frames matrix is the number i, a column of zeros is 0.
MelColumns(n) == [i \in 1..(1 + n \div HopLength) |-> i]

\* max_frames columns of zeros, from which np.pad takes what is missing.
ZeroColumns == Zeros(MaxFrames)

\* The frame axis left as the spectrogram has it when it is too long.
FrameFixupPadOnly(cols) ==
    IF Len(cols) < MaxFrames
    THEN cols \o SubSeq(ZeroColumns, 1, MaxFrames - Len(cols))
    ELSE cols

\* if logmel.shape[1] < max_frames: np.pad at the end; else logmel[:, :max_frames]
FrameFixup(cols) ==
    IF Len(cols) < MaxFrames
    THEN cols \o SubSeq(ZeroColumns, 1, MaxFrames - Len(cols))
    ELSE SubSeq(cols, 1, MaxFrames)

\* np.expand_dims(logmel, -1): the shape of the returned array.
ExpandDims(cols) == <<NMels, Len(cols), 1>>

\* The tensor is a deterministic function of the fixed-length buffer and the
\* sample rate; it is represented by them and by its shape.
extract_logmel_from_array(samples, rate) ==
    IF MelRaises(FixLength(samples, rate)) THEN None
    ELSE [ok |-> TRUE, sig |-> FixLength(samples, rate), sr |-> rate,
          shape |-> ExpandDims(FrameFixup(MelColumns(Len(FixLength(samples, rate)))))]

\* -------------------------------------------------------- InferenceAdapter
\* Probabilities are in thousandths.
LoadedModel ==
    [k \in 0..2 |->
        CASE k = 0 -> [i \in 0..2 |-> IF i = 2 THEN 200 ELSE 400]
          [] k = 1 -> [i \in 0..2 |-> IF i = 1 THEN 625 ELSE IF i = 0 THEN 100 ELSE 275]
          [] OTHER -> [i \in 0..2 |-> IF i = 2 THEN 400 ELSE 300]]

LoadedEncoder == [i \in 0..2 |-> CASE i = 0 -> "angry" [] i = 1 -> "happy" [] OTHER -> "sad"]

ModelPredict(m, tensor) == m[SumSeq(tensor.sig) % 3]

MaxOf(p) == CHOOSE v \in {p[i] : i \in DOMAIN p} : \A i \in DOMAIN p : p[i] <= v

\* The highest index among the maximal entries.
ArgMaxLast(p) ==
    CHOOSE i \in DOMAIN p : p[i] = MaxOf(p) /\ \A j \in DOMAIN p : j > i => p[j] < p[i]

\* np.argmax: the first index holding the maximum.
ArgMax(p) ==
    CHOOSE i \in DOMAIN p : p[i] = MaxOf(p) /\ \A j \in DOMAIN p : j < i => p[j] < p[i]

\* The percentage cut to its integer part.
RoundPercentFloor(p) == p \div 10

\* int(round(confidence * 100)): Python rounds halves to even.
RoundPercent(p) ==
    LET q == p \div 10
        r == p % 10
    IN IF r > 5 THEN q + 1
       ELSE IF r < 5 THEN q
       ELSE IF q % 2 = 0 THEN q ELSE q + 1

InverseTransformRaises(enc, p) == ArgMax(p) \notin DOMAIN enc

Prediction(enc, p) ==
    [emotion |-> enc[ArgMax(p)], confidence |-> RoundPercent(MaxOf(p))]

ErrorReply(msg) == [error |-> msg]

\* ------------------------------------------------------------- temp files
\* The temp directory is a set of files; owner and complete are bookkeeping
\* (who created the file, whether the write finished).
FileAt(files, p) == CHOOSE f \in files : f.path = p

Exists(files, p) == \E f \in files : f.path = p

\* The bytes at a path; opening a path that has no file fails as opening
\* garbage does.
ReadFile(files, p) == IF Exists(files, p) THEN FileAt(files, p).bytes ELSE Corrupt

\* A file name is drawn per handler; NoPath stands for temp_path = None.
Paths == [client : Clients, n : 1..(MaxChunks + MaxSoloChunks)]
NoPath == [client |-> 0, n |-> 0]

\* One fixed file name for every chunk.
FixedTempName(files, c) == [client |-> 0, n |-> 1]

\* tempfile.NamedTemporaryFile(delete=False): a name no existing file has.
NamedTemporaryFile(files, c) ==
    [client |-> c,
     n |-> CHOOSE k \in 1..(MaxChunks + MaxSoloChunks) :
              /\ ~Exists(files, [client |-> c, n |-> k])
              /\ \A j \in 1..(k - 1) : Exists(files, [client |-> c, n |-> j])]

WriteFile(files, p, c, blob, done) ==
    {f \in files : f.path # p}
        \cup {[path |-> p, owner |-> c, bytes |-> IF done THEN blob ELSE Corrupt,
               complete |-> done]}

RemoveFile(files, p) == {f \in files : f.path # p}

\* ------------------------------------------------------------------- state
VARIABLES
    pc,             \* position of each client's handler
    data,           \* the chunk (or upload body) being processed
    temp_path,      \* NoPath is None
    y, sr,          \* decoded PCM buffer
    feat,           \* feature tensor, or None
    reply,          \* the message about to be sent
    exc,            \* the exception propagating out of the try block
    stages,         \* pipeline stages run on the current unit, with outcome
    received,       \* chunks received so far
    sent,           \* messages (or HTTP responses) delivered to the client
    fs,             \* files in the temp directory
    container,      \* the av container each handler's local name is bound to
    model,          \* the classifier loaded at startup
    label_encoder   \* the label vocabulary loaded at startup

vars == <<pc, data, temp_path, y, sr, feat, reply, exc, stages, received, sent,
          fs, container, model, label_encoder>>

locals == <<data, temp_path, y, sr, feat, reply, container>>
shared == <<model, label_encoder>>

NoReply == [seq |-> 0, msg |-> ErrorReply("")]

\* Chunks received on the connections 1..n.
RECURSIVE TotalLen(_, _)
TotalLen(f, n) == IF n = 0 THEN 0 ELSE Len(f[n]) + TotalLen(f, n - 1)

InitLocals ==
    /\ data = [c \in Clients |-> Corrupt]
    /\ temp_path = [c \in Clients |-> NoPath]
    /\ y = [c \in Clients |-> <<>>]
    /\ sr = [c \in Clients |-> 0]
    /\ feat = [c \in Clients |-> None]
    /\ reply = [c \in Clients |-> NoReply]
    /\ exc = [c \in Clients |-> "none"]
    /\ stages = [c \in Clients |-> <<>>]
    /\ received = [c \in Clients |-> <<>>]
    /\ sent = [c \in Clients |-> <<>>]
    /\ fs = {}
    /\ container = [c \in Clients |-> "none"]
    /\ model = LoadedModel
    /\ label_encoder = LoadedEncoder

\* A run exercises one endpoint: concurrent WebSocket connections, one
\* connection alone, or uploads.
InitStream ==
    /\ InitLocals
    /\ pc = [c \in Clients |-> IF c \in Sessions THEN "accept" ELSE "off"]

InitUpload ==
    /\ InitLocals
    /\ pc = [c \in Clients |-> IF c \in Uploads THEN "idle" ELSE "off"]

\* A single connection, which is given more chunks.
InitSolo ==
    /\ InitLocals
    /\ pc = [c \in Clients |-> IF c = 1 THEN "accept" ELSE "off"]

Init == InitStream \/ InitSolo \/ InitUpload

\* ------------------------------------------------------- websocket_endpoint
Goto(c, l) == pc' = [pc EXCEPT ![c] = l]

Stage(c, name, ok) == stages' = [stages EXCEPT ![c] = Append(@, [stage |-> name, ok |-> ok])]

\* The number of chunks a run delivers, over all its connections.
Budget ==
    IF \A s \in Sessions \ {1} : pc[s] = "off" THEN MaxSoloChunks ELSE MaxChunks

Accept(s) ==
    /\ pc[s] = "accept"
    /\ Goto(s, "recv")
    /\ UNCHANGED <<locals, exc, stages, received, sent, fs, shared>>

\* Reads the next chunk while the reply to the previous one is still unsent.
ReceiveEarly(s) ==
    /\ pc[s] \in {"recv", "send"}
    /\ TotalLen(received, NumSessions) < Budget
    /\ \E blob \in Blobs :
        /\ data' = [data EXCEPT ![s] = blob]
        /\ received' = [received EXCEPT ![s] = Append(@, blob)]
    /\ stages' = [stages EXCEPT ![s] = <<>>]
    /\ Goto(s, "tmp")
    /\ UNCHANGED <<temp_path, y, sr, feat, reply, exc, sent, fs, container, shared>>

\* data = await ws.receive_bytes()
Receive(s) ==
    /\ pc[s] = "recv"
    /\ TotalLen(received, NumSessions) < Budget
    /\ \E blob \in Blobs :
        /\ data' = [data EXCEPT ![s] = blob]
        /\ received' = [received EXCEPT ![s] = Append(@, blob)]
    /\ stages' = [stages EXCEPT ![s] = <<>>]
    /\ Goto(s, "tmp")
    /\ UNCHANGED <<temp_path, y, sr, feat, reply, exc, sent, fs, container, shared>>

\* receive_bytes raises: the client went away or sent a non-binary frame.
ReceiveFault(s) ==
    /\ pc[s] = "recv"
    /\ exc' = [exc EXCEPT ![s] = "WebSocketDisconnect"]
    /\ Goto(s, "finally")
    /\ UNCHANGED <<locals, stages, received, sent, fs, shared>>

\* with NamedTemporaryFile(delete=False) as tmp: tmp.write(data); temp_path = tmp.name
SaveChunk(s) ==
    /\ pc[s] = "tmp"
    /\ \/ /\ fs' = WriteFile(fs, NamedTemporaryFile(fs, s), s, data[s], TRUE)
          /\ temp_path' = [temp_path EXCEPT ![s] = NamedTemporaryFile(fs, s)]
          /\ Goto(s, "decode")
          /\ UNCHANGED exc
       \/ \* the write raises after the file was created: temp_path is not yet bound
          /\ fs' = WriteFile(fs, NamedTemporaryFile(fs, s), s, data[s], FALSE)
          /\ exc' = [exc EXCEPT ![s] = "OSError"]
          /\ Goto(s, "finally")
          /\ UNCHANGED temp_path
    /\ UNCHANGED <<data, y, sr, feat, reply, stages, received, sent, container, shared>>

\* The decoder reads the file at temp_path.
DecodeOk(s) ==
    /\ pc[s] = "decode"
    /\ AvDecode(ReadFile(fs, temp_path[s])).ok
    /\ y' = [y EXCEPT ![s] = AvDecode(ReadFile(fs, temp_path[s])).y]
    /\ sr' = [sr EXCEPT ![s] = AvDecode(ReadFile(fs, temp_path[s])).sr]
    /\ container' = [container EXCEPT ![s] = "closed"]
    /\ Stage(s, "decode", TRUE)
    /\ Goto(s, "extract")
    /\ UNCHANGED <<data, temp_path, feat, reply, exc, received, sent, fs, shared>>

\* Without the inner try: the decode failure propagates to the outer handler.
DecodeFailPropagates(s) ==
    /\ pc[s] = "decode"
    /\ ~AvDecode(ReadFile(fs, temp_path[s])).ok
    /\ exc' = [exc EXCEPT ![s] = "DecodeError"]
    /\ Stage(s, "decode", FALSE)
    /\ Goto(s, "finally")
    /\ UNCHANGED <<locals, received, sent, fs, shared>>

\* The decode failure is swallowed and the loop body goes on with y and sr
\* as an earlier chunk left them.
DecodeFailStale(s) ==
    /\ pc[s] = "decode"
    /\ ~AvDecode(ReadFile(fs, temp_path[s])).ok
    /\ Stage(s, "decode", TRUE)
    /\ Goto(s, "extract")
    /\ UNCHANGED <<locals, exc, received, sent, fs, shared>>

\* except Exception as e: await ws.send_json({"error": ...}); continue
\* When av.open raised, the name container keeps what it was bound to; when
\* a later line of the try block raised, it is bound to the container just
\* opened, which line 135 never closed.
DecodeFail(s) ==
    /\ pc[s] = "decode"
    /\ ~AvDecode(ReadFile(fs, temp_path[s])).ok
    /\ reply' = [reply EXCEPT ![s] =
                    [seq |-> Len(received[s]), msg |-> ErrorReply("Decode error")]]
    /\ container' = IF AvOpenRaises(ReadFile(fs, temp_path[s]))
                    THEN container
                    ELSE [container EXCEPT ![s] = "open"]
    /\ Stage(s, "decode", FALSE)
    /\ Goto(s, "send")
    /\ UNCHANGED <<data, temp_path, y, sr, feat, exc, received, sent, fs, shared>>

\* Without the test for None: the classifier is called whatever extract returned.
ExtractUnchecked(s) ==
    /\ pc[s] = "extract"
    /\ feat' = [feat EXCEPT ![s] = extract_logmel_from_array(y[s], sr[s])]
    /\ Stage(s, "extract", feat'[s].ok)
    /\ Goto(s, "infer")
    /\ UNCHANGED <<data, temp_path, y, sr, reply, exc, received, sent, fs, container, shared>>

\* feat = extract_logmel_from_array(y, sr=sr); if feat is None: send error; continue
Extract(s) ==
    /\ pc[s] = "extract"
    /\ feat' = [feat EXCEPT ![s] = extract_logmel_from_array(y[s], sr[s])]
    /\ Stage(s, "extract", feat'[s].ok)
    /\ IF feat'[s].ok
       THEN Goto(s, "infer") /\ UNCHANGED reply
       ELSE /\ reply' = [reply EXCEPT ![s] =
                    [seq |-> Len(received[s]), msg |-> ErrorReply("Feature extraction failed")]]
            /\ Goto(s, "send")
    /\ UNCHANGED <<data, temp_path, y, sr, exc, received, sent, fs, container, shared>>

\* model.predict, np.argmax, label_encoder.inverse_transform; nothing catches
\* what they raise before the outer handler.
Infer(s) ==
    /\ pc[s] = "infer"
    /\ \E raises \in BOOLEAN :
        IF raises \/ InverseTransformRaises(label_encoder, ModelPredict(model, feat[s]))
        THEN /\ exc' = [exc EXCEPT ![s] = "InferenceError"]
             /\ Stage(s, "infer", FALSE)
             /\ Goto(s, "finally")
             /\ UNCHANGED reply
        ELSE /\ reply' = [reply EXCEPT ![s] =
                    [seq |-> Len(received[s]),
                     msg |-> Prediction(label_encoder, ModelPredict(model, feat[s]))]]
             /\ Stage(s, "infer", TRUE)
             /\ Goto(s, "send")
             /\ UNCHANGED exc
    /\ UNCHANGED <<data, temp_path, y, sr, feat, received, sent, fs, container, shared>>

\* await ws.send_json(...)
Send(s) ==
    /\ pc[s] = "send"
    /\ sent' = [sent EXCEPT ![s] = Append(@, reply[s])]
    /\ Goto(s, "finally")
    /\ UNCHANGED <<locals, exc, stages, received, fs, shared>>

SendFault(s) ==
    /\ pc[s] = "send"
    /\ exc' = [exc EXCEPT ![s] = "WebSocketDisconnect"]
    /\ Goto(s, "finally")
    /\ UNCHANGED <<locals, stages, received, sent, fs, shared>>

\* A finally block that resumes the loop whatever happened in the try block.
FinallyLoops(s) ==
    /\ pc[s] = "finally"
    /\ IF temp_path[s] # NoPath /\ Exists(fs, temp_path[s])
       THEN fs' = RemoveFile(fs, temp_path[s])
       ELSE UNCHANGED fs
    /\ Goto(s, "recv") /\ temp_path' = [temp_path EXCEPT ![s] = NoPath]
    /\ UNCHANGED <<data, y, sr, feat, reply, exc, stages, received, sent, container, shared>>

\* finally: if temp_path and os.path.exists(temp_path): try os.remove except pass
\* (os.remove of a file the handler wrote itself is taken to succeed.)
Finally(s) ==
    /\ pc[s] = "finally"
    /\ IF temp_path[s] # NoPath /\ Exists(fs, temp_path[s])
       THEN fs' = RemoveFile(fs, temp_path[s])
       ELSE UNCHANGED fs
    /\ IF exc[s] = "none"
       THEN Goto(s, "recv") /\ temp_path' = [temp_path EXCEPT ![s] = NoPath]
       ELSE Goto(s, "except") /\ UNCHANGED temp_path
    /\ UNCHANGED <<data, y, sr, feat, reply, exc, stages, received, sent, container, shared>>

\* except Exception: try ws.close() except RuntimeError: pass
\* The coroutine returns and its locals are released.
Close(s) ==
    /\ pc[s] = "except"
    /\ container' = [container EXCEPT ![s] = "none"]
    /\ Goto(s, "closed")
    /\ UNCHANGED <<data, temp_path, y, sr, feat, reply, exc, stages, received, sent,
                   fs, shared>>

NextStream ==
    \E s \in Sessions :
        \/ Accept(s) \/ Receive(s) \/ ReceiveFault(s) \/ SaveChunk(s)
        \/ DecodeOk(s) \/ DecodeFail(s) \/ Extract(s) \/ Infer(s)
        \/ Send(s) \/ SendFault(s) \/ Finally(s) \/ Close(s)

\* ---------------------------------------------------------- predict_emotion
\* with NamedTemporaryFile(delete=False, suffix=suffix) as tmp:
\*     tmp.write(await file.read()); temp_path = tmp.name
UploadSave(u) ==
    /\ pc[u] = "idle"
    /\ \E blob \in Blobs :
        /\ data' = [data EXCEPT ![u] = blob]
        /\ received' = [received EXCEPT ![u] = Append(@, blob)]
        /\ \/ /\ fs' = WriteFile(fs, NamedTemporaryFile(fs, u), u, blob, TRUE)
              /\ temp_path' = [temp_path EXCEPT ![u] = NamedTemporaryFile(fs, u)]
              /\ Goto(u, "load")
              /\ UNCHANGED exc
           \/ \* the read or the write raises: temp_path is not yet bound
              /\ fs' = WriteFile(fs, NamedTemporaryFile(fs, u), u, blob, FALSE)
              /\ exc' = [exc EXCEPT ![u] = "OSError"]
              /\ Goto(u, "except")
              /\ UNCHANGED temp_path
    /\ UNCHANGED <<y, sr, feat, reply, stages, sent, container, shared>>

\* y, sr = librosa.load(temp_path, sr=22050, duration=3.0)
UploadLoad(u) ==
    /\ pc[u] = "load"
    /\ LET pcm == LibrosaLoad(ReadFile(fs, temp_path[u])) IN
        /\ Stage(u, "decode", pcm.ok)
        /\ IF pcm.ok
           THEN /\ y' = [y EXCEPT ![u] = pcm.y]
                /\ sr' = [sr EXCEPT ![u] = pcm.sr]
                /\ Goto(u, "extract")
                /\ UNCHANGED exc
           ELSE /\ exc' = [exc EXCEPT ![u] = "DecodeError"]
                /\ Goto(u, "except")
                /\ UNCHANGED <<y, sr>>
    /\ UNCHANGED <<data, temp_path, feat, reply, received, sent, fs, container, shared>>

\* if feat is None: raise HTTPException(status_code=500, ...)
UploadExtract(u) ==
    /\ pc[u] = "extract"
    /\ feat' = [feat EXCEPT ![u] = extract_logmel_from_array(y[u], sr[u])]
    /\ Stage(u, "extract", feat'[u].ok)
    /\ IF feat'[u].ok
       THEN Goto(u, "infer") /\ UNCHANGED exc
       ELSE exc' = [exc EXCEPT ![u] = "HTTPException500"] /\ Goto(u, "except")
    /\ UNCHANGED <<data, temp_path, y, sr, reply, received, sent, fs, container, shared>>

UploadInfer(u) ==
    /\ pc[u] = "infer"
    /\ \E raises \in BOOLEAN :
        IF raises \/ InverseTransformRaises(label_encoder, ModelPredict(model, feat[u]))
        THEN /\ exc' = [exc EXCEPT ![u] = "InferenceError"]
             /\ Stage(u, "infer", FALSE)
             /\ Goto(u, "except")
             /\ UNCHANGED reply
        ELSE /\ reply' = [reply EXCEPT ![u] =
                    [seq |-> Len(received[u]),
                     msg |-> [status |-> 200,
                              body |-> Prediction(label_encoder, ModelPredict(model, feat[u]))]]]
             /\ Stage(u, "infer", TRUE)
             /\ Goto(u, "finally")
             /\ UNCHANGED exc
    /\ UNCHANGED <<data, temp_path, y, sr, feat, received, sent, fs, container, shared>>

\* An except clause that lets an HTTPException through.
ExceptClauseReraise(e) ==
    IF e = "HTTPException500"
    THEN [status |-> 500, body |-> ErrorReply("Failed to extract features from audio.")]
    ELSE [status |-> 422, body |-> ErrorReply("Cannot process audio")]

\* except Exception as e: raise HTTPException(status_code=422, ...)
\* HTTPException is an Exception: the 500 raised above is caught here too.
ExceptClause(e) == [status |-> 422, body |-> ErrorReply("Cannot process audio")]

UploadExcept(u) ==
    /\ pc[u] = "except"
    /\ reply' = [reply EXCEPT ![u] = [seq |-> Len(received[u]), msg |-> ExceptClause(exc[u])]]
    /\ Goto(u, "finally")
    /\ UNCHANGED <<data, temp_path, y, sr, feat, exc, stages, received, sent, fs, container, shared>>

\* finally: if temp_path and os.path.exists(temp_path): os.remove(temp_path)
UploadFinally(u) ==
    /\ pc[u] = "finally"
    /\ IF temp_path[u] # NoPath /\ Exists(fs, temp_path[u])
       THEN fs' = RemoveFile(fs, temp_path[u])
       ELSE UNCHANGED fs
    /\ Goto(u, "respond")
    /\ UNCHANGED <<locals, exc, stages, received, sent, shared>>

\* The framework turns the return value or the HTTPException into the response.
UploadRespond(u) ==
    /\ pc[u] = "respond"
    /\ sent' = [sent EXCEPT ![u] = Append(@, reply[u])]
    /\ Goto(u, "done")
    /\ UNCHANGED <<locals, exc, stages, received, fs, shared>>

NextUpload ==
    \E u \in Uploads :
        \/ UploadSave(u) \/ UploadLoad(u) \/ UploadExtract(u) \/ UploadInfer(u)
        \/ UploadExcept(u) \/ UploadFinally(u) \/ UploadRespond(u)

Next == NextStream \/ NextUpload

Spec == Init /\ [][Next]_vars

\* Two concurrent connections.  The event loop runs a handler that has left
\* its try block to the end: the finally block and the closing except clause
\* await nothing that can be withheld forever.
InitPair ==
    /\ InitLocals
    /\ pc = [c \in Clients |-> IF c \in {1, 2} THEN "accept" ELSE "off"]

FairSpec ==
    /\ InitPair
    /\ [][NextStream]_vars
    /\ \A s \in Sessions : WF_vars(Finally(s)) /\ WF_vars(Close(s))

\* --------------------------------------------------- the functions alone
\* extract_logmel_from_array and the classification of a tensor, called on
\* inputs drawn from bounded sets, by the handler of client 1.
MaxLen == 4

RECURSIVE SeqsUpTo(_, _)
SeqsUpTo(S, n) ==
    IF n = 0 THEN {<<>>}
    ELSE LET shorter == SeqsUpTo(S, n - 1)
         IN shorter \cup {Append(q, v) : q \in {r \in shorter : Len(r) = n - 1}, v \in S}

\* Short buffers at the scaled rates 1 and 2 (3 and 6 samples are 3 s).
SmallBuffers == SeqsUpTo({0, 1, NaN}, MaxLen)
SmallRates == {CanonRate, 2 * CanonRate}

\* Buffers of real length: rates in Hz, and lengths around the 3 s mark.  A
\* rate of 22000 gives exactly 129 frames, 21845 gives 128, 22050 gives 130.
RealRates == {8000, 21845, 22000, 22050, 48000}
RealLengths(rate) == {1, rate, 3 * rate - 1, 3 * rate, 3 * rate + 1, 5 * rate}
RealBuffer(n) == SubSeq([i \in 1..n |-> 1 + (i % 5)], 1, n)

\* Outputs of the softmax layer, in thousandths: entries in [0, 1] whose sum
\* is 1, or less than 1.
ProbGrid == {0, 4, 5, 6, 15, 250, 333, 334, 495, 500, 505, 985, 994, 995, 996, 1000}
ProbVectors ==
    {[i \in 0..2 |-> IF i < 2 THEN g[i + 1]
                     ELSE IF g[3] THEN 1000 - g[1] - g[2] ELSE 0] :
        g \in {h \in ProbGrid \X ProbGrid \X BOOLEAN : h[1] + h[2] <= 1000}}

\* A classifier that answers v whatever the tensor.
ConstantModel(v) == [k \in 0..2 |-> v]

InitCall(label, buf, rate, tensor, m) ==
    /\ pc = [c \in Clients |-> IF c = 1 THEN label ELSE "off"]
    /\ data = [c \in Clients |-> Corrupt]
    /\ temp_path = [c \in Clients |-> NoPath]
    /\ y = [c \in Clients |-> IF c = 1 THEN buf ELSE <<>>]
    /\ sr = [c \in Clients |-> IF c = 1 THEN rate ELSE 0]
    /\ feat = [c \in Clients |-> IF c = 1 THEN tensor ELSE None]
    /\ reply = [c \in Clients |-> NoReply]
    /\ exc = [c \in Clients |-> "none"]
    /\ stages = [c \in Clients |-> <<>>]
    /\ received = [c \in Clients |-> <<>>]
    /\ sent = [c \in Clients |-> <<>>]
    /\ fs = {}
    /\ container = [c \in Clients |-> "none"]
    /\ model = m
    /\ label_encoder = LoadedEncoder

InitExtractSmall ==
    \E buf \in SmallBuffers, rate \in SmallRates :
        InitCall("call_extract", buf, rate, None, LoadedModel)

InitExtractReal ==
    \E rate \in RealRates : \E n \in RealLengths(rate) :
        InitCall("call_extract", RealBuffer(n), rate, None, LoadedModel)

InitClassify ==
    \E v \in ProbVectors :
        InitCall("call_classify", <<1>>, CanonRate,
                 extract_logmel_from_array(<<1>>, CanonRate), ConstantModel(v))

InitPure == InitExtractSmall \/ InitExtractReal \/ InitClassify

\* features = extract_logmel_from_array(y, sr)
ExtractCall(c) ==
    /\ pc[c] = "call_extract"
    /\ feat' = [feat EXCEPT ![c] = extract_logmel_from_array(y[c], sr[c])]
    /\ Goto(c, "ret_extract")
    /\ UNCHANGED <<data, temp_path, y, sr, reply, exc, stages, received, sent,
                   fs, container, shared>>

\* model.predict, np.argmax, inverse_transform, float(np.max), round
ClassifyCall(c) ==
    /\ pc[c] = "call_classify"
    /\ feat[c].ok
    /\ reply' = [reply EXCEPT ![c] =
           [seq |-> 0,
            msg |-> Prediction(label_encoder, ModelPredict(model, feat[c]))]]
    /\ Goto(c, "ret_classify")
    /\ UNCHANGED <<data, temp_path, y, sr, feat, exc, stages, received, sent,
                   fs, container, shared>>

NextPure ==
    \/ \E c \in Clients : ExtractCall(c)
    \/ \E c \in Clients : ClassifyCall(c)

SpecPure == InitPure /\ [][NextPure]_vars

\* ================================================================== claims
Last(q) == q[Len(q)]

OwnedBy(c) == {f \in fs : f.owner = c}

IsPrediction(m) == DOMAIN m = {"emotion", "confidence"}

StageFailed(c) == stages[c] # <<>> /\ ~Last(stages[c]).ok

DecodeFailed(c) == stages[c] # <<>> /\ ~stages[c][1].ok

\* What the pipeline of websocket_endpoint answers to one chunk taken alone.
StreamReply(blob) ==
    IF ~AvDecode(blob).ok THEN ErrorReply("Decode error")
    ELSE IF ~extract_logmel_from_array(AvDecode(blob).y, AvDecode(blob).sr).ok
    THEN ErrorReply("Feature extraction failed")
    ELSE Prediction(LoadedEncoder,
            ModelPredict(LoadedModel,
                extract_logmel_from_array(AvDecode(blob).y, AvDecode(blob).sr)))

\* C1: when a pipeline stage (decode, feature extraction, classifier or label
\* lookup) fails on a chunk, the receive loop is not left: a session whose
\* last unit had a failed stage is in the outer handler or closed only
\* because receiving or sending on the connection failed.
C1_StageFailureKeepsLoop ==
    \A s \in Sessions :
        (StageFailed(s) /\ pc[s] \in {"except", "closed"}) => exc[s] = "WebSocketDisconnect"

\* C2: every chunk that went through the pipeline on a connection without
\* transport fault is answered exactly once before the next one is received:
\* replies never outnumber chunks, and once the unit is over (the session
\* waits for the next chunk, or has left the loop) no chunk is unanswered.
C2_OneReplyPerChunk ==
    \A s \in Sessions :
        /\ Len(sent[s]) <= Len(received[s])
        /\ (exc[s] \in {"none", "InferenceError"} /\ pc[s] \in {"recv", "except", "closed"})
              => Len(sent[s]) = Len(received[s])

\* C3: a chunk that cannot be decoded is answered with a decode error, no
\* later stage runs on it, its failure never propagates as an exception, the
\* session goes back to waiting, and a valid chunk that follows it is
\* answered with a Prediction.
C3_DecodeErrorIsSoft ==
    \A s \in Sessions :
        /\ pc[s] \in {"extract", "infer"} => AvDecode(data[s]).ok
        /\ DecodeFailed(s) =>
              /\ Len(stages[s]) = 1
              /\ exc[s] \in {"none", "WebSocketDisconnect"}
              /\ exc[s] = "none" => pc[s] \in {"send", "finally", "recv"}
              /\ pc[s] = "send" => reply[s].msg = ErrorReply("Decode error")
              /\ (exc[s] = "none" /\ pc[s] \in {"finally", "recv"})
                    => Last(sent[s]).msg = ErrorReply("Decode error")
        /\ \A k \in 1..Len(sent[s]) :
              ~AvDecode(received[s][k]).ok =>
                  /\ sent[s][k].msg = ErrorReply("Decode error")
                  /\ (k < Len(sent[s]) /\ IsPrediction(StreamReply(received[s][k + 1])))
                        => IsPrediction(sent[s][k + 1].msg)

C3_Witness ==
    \E s \in Sessions :
        /\ Len(sent[s]) >= 2
        /\ ~AvDecode(received[s][1]).ok
        /\ sent[s][1].msg = ErrorReply("Decode error")
        /\ IsPrediction(sent[s][2].msg)

\* C5: the temp file of a chunk is gone when the next chunk is awaited and
\* when the session has ended, and a connection never has two temp files.
C5_TempFileReleased ==
    \A s \in Sessions :
        /\ Cardinality(OwnedBy(s)) <= 1
        /\ pc[s] \in {"recv", "closed"} => OwnedBy(s) = {}

\* C4: in upload mode every failure (storing the upload, decoding, feature
\* extraction, classifier or label lookup) reaches the client as status 422;
\* the status-500 exception raised for an extraction failure never does, and
\* status 200 is sent only when nothing failed.
C4_UploadFailuresAre422 ==
    \A u \in Uploads :
        /\ pc[u] \in {"finally", "respond", "done"} =>
              reply[u].msg.status = IF exc[u] = "none" THEN 200 ELSE 422
        /\ \A k \in 1..Len(sent[u]) :
              sent[u][k].msg.status = IF exc[u] = "none" THEN 200 ELSE 422

C4_Witness ==
    \E u \in Uploads :
        /\ pc[u] = "done"
        /\ exc[u] = "HTTPException500"
        /\ sent[u][1].msg.status = 422

\* C6: an upload produces exactly one response, and the temp file created
\* for it is deleted before the response is produced, in Done and in Failed.
C6_UploadReleasesTempFile ==
    \A u \in Uploads :
        /\ Len(sent[u]) <= 1
        /\ pc[u] = "done" => Len(sent[u]) = 1
        /\ pc[u] \in {"respond", "done"} => OwnedBy(u) = {}

\* The state machine of an upload.
UState(u) ==
    CASE pc[u] = "idle" -> "Idle"
      [] pc[u] = "load" -> "Decoding"
      [] pc[u] = "extract" -> "Extracting"
      [] pc[u] = "infer" -> "Inferring"
      [] pc[u] \in {"except", "finally", "respond", "done"} /\ exc[u] # "none" -> "Failed"
      [] pc[u] \in {"finally", "respond", "done"} /\ exc[u] = "none" -> "Done"
      [] OTHER -> "Off"

StageNames == <<"decode", "extract", "infer">>

AllStagesOk(c) ==
    Len(stages[c]) = Len(StageNames) /\ \A i \in 1..Len(stages[c]) : stages[c][i].ok

C7_Order ==
    \A c \in Clients :
        /\ Len(stages[c]) <= Len(StageNames)
        /\ \A i \in 1..Len(stages[c]) :
              /\ stages[c][i].stage = StageNames[i]
              /\ i < Len(stages[c]) => stages[c][i].ok
        /\ (c \in Sessions /\ pc[c] = "send" /\ IsPrediction(reply[c].msg)) => AllStagesOk(c)
        /\ (c \in Uploads /\ UState(c) = "Done") => AllStagesOk(c)
        /\ (c \in Uploads /\ UState(c) = "Failed") => ~AllStagesOk(c)

C7_Absorbing ==
    \A u \in Uploads :
        UState(u) \in {"Done", "Failed"} => (UState(u)' = UState(u) /\ stages'[u] = stages[u])

\* C7: the stages of one unit run in the order decode, extract, infer; a
\* failed stage is the last stage of its unit; a Prediction is produced only
\* after all three succeeded; in upload mode Done and Failed are never left.
C7_StagesInOrder == []C7_Order /\ [][C7_Absorbing]_vars

C7_Witness ==
    \E c \in Clients :
        /\ Len(stages[c]) = 2
        /\ ~stages[c][2].ok
        /\ pc[c] \in {"recv", "done"}

Processing == {"decode", "extract", "infer", "send"}

\* C8: with concurrent sessions, each session decodes the file it wrote
\* itself, every intermediate value and the reply about to be sent derive
\* from the session's own chunk, two sessions never use the same temp file,
\* and the classifier and the vocabulary stay as loaded at startup.
C8_NoCrossTalk ==
    /\ model = LoadedModel
    /\ label_encoder = LoadedEncoder
    /\ \A s \in Sessions :
        /\ pc[s] = "decode" =>
              /\ Exists(fs, temp_path[s])
              /\ FileAt(fs, temp_path[s]).owner = s
              /\ FileAt(fs, temp_path[s]).bytes = data[s]
        /\ pc[s] = "extract" =>
              (y[s] = AvDecode(data[s]).y /\ sr[s] = AvDecode(data[s]).sr)
        /\ pc[s] = "infer" =>
              feat[s] = extract_logmel_from_array(AvDecode(data[s]).y, AvDecode(data[s]).sr)
        /\ pc[s] = "send" => reply[s].msg = StreamReply(data[s])
        /\ \A t \in Sessions \ {s} :
              (pc[s] \in Processing /\ pc[t] \in Processing) => temp_path[s] # temp_path[t]

C8_Witness ==
    \E s \in Sessions : \E t \in Sessions \ {s} :
        /\ pc[s] = "send"
        /\ IsPrediction(reply[s].msg)
        /\ pc[t] \in Processing
        /\ IsPrediction(StreamReply(data[t]))
        /\ data[s] # data[t]

\* C9: at most one chunk is in flight per connection, no chunk is read
\* before the previous one is finished, and the k-th reply on a connection
\* answers the k-th chunk received on it.
C9_FifoNoPipelining ==
    \A s \in Sessions :
        /\ Len(sent[s]) <= Len(received[s])
        /\ Len(received[s]) <= Len(sent[s]) + 1
        /\ pc[s] \in {"recv", "accept"} => Len(sent[s]) = Len(received[s])
        /\ pc[s] \in {"tmp", "decode", "extract", "infer", "send"}
              => Len(received[s]) = Len(sent[s]) + 1
        /\ \A k \in 1..Len(sent[s]) : sent[s][k].seq = k

C9_Witness ==
    \E s \in Sessions :
        /\ Len(sent[s]) >= 2
        /\ received[s][1] # received[s][2]
        /\ pc[s] = "recv"

Finite(buf) == \A i \in 1..Len(buf) : buf[i] # NaN

Returned(c) == pc[c] = "ret_extract"

\* C11: for every buffer length (empty, shorter than, equal to, longer than
\* 3 s, silent) and every positive sample rate, the tensor returned by
\* extract_logmel_from_array has shape (64, 129, 1): the frame axis of the
\* spectrogram is zero-padded at the end to 129 frames when shorter and cut
\* to its first 129 frames otherwise, and one trailing channel axis is added.
\* A finite buffer always yields a tensor.
C11_TensorShape ==
    \A c \in Clients : Returned(c) =>
        /\ (Finite(y[c]) /\ sr[c] > 0) => feat[c].ok
        /\ feat[c].ok =>
              LET raw == MelColumns(Len(feat[c].sig))
                  fixed == FrameFixup(raw)
              IN /\ feat[c].shape = <<64, 129, 1>>
                 /\ feat[c].shape = <<NMels, Len(fixed), 1>>
                 /\ \A i \in 1..129 :
                        fixed[i] = IF i <= Len(raw) THEN raw[i] ELSE 0

\* One sample at 22050 Hz: padded to 3 s, 130 frames before the fix-up.
C11_Witness ==
    /\ Returned(1) /\ feat[1].ok
    /\ sr[1] = 22050 /\ Len(y[1]) = 1
    /\ Len(MelColumns(Len(feat[1].sig))) = 130
    /\ feat[1].shape = <<64, 129, 1>>

\* C12: the buffer handed to the spectrogram transform has exactly
\* round(sample_rate * 3.0) samples: a shorter buffer is followed by zeros up
\* to that length, its own samples unchanged in front, and a buffer at least
\* that long is cut to its first samples.
C12_BufferFixedLength ==
    \A c \in Clients : Returned(c) =>
        LET buf == FixLength(y[c], sr[c])
            n == 3 * sr[c]
        IN /\ Len(buf) = n
           /\ feat[c].ok => feat[c].sig = buf
           /\ \A i \in 1..n : buf[i] = IF i <= Len(y[c]) THEN y[c][i] ELSE 0

\* Three samples at the scaled rate 2 (6 samples are 3 s): padded with zeros.
C12_Witness ==
    /\ Returned(1)
    /\ sr[1] = 2 /\ y[1] = <<1, 0, 1>>
    /\ feat[1].ok /\ feat[1].sig = <<1, 0, 1, 0, 0, 0>>

Classified(c) == pc[c] = "ret_classify"

\* The vector the classifier answered for the tensor of client c.
Probabilities(c) == model[SumSeq(feat[c].sig) % 3]

IsMax(p, m) == (\E i \in DOMAIN p : p[i] = m) /\ (\A i \in DOMAIN p : p[i] <= m)

\* C13: the confidence sent is round(max(probabilities) * 100), the integer
\* nearest to the largest probability in percent, and lies in 0..100 for
\* every vector with entries in [0, 1] that sum to at most 1.
C13_ConfidenceRounded ==
    \A c \in Clients : Classified(c) =>
        LET p == Probabilities(c)
            conf == reply[c].msg.confidence
        IN /\ conf \in 0..100
           /\ \A m \in 0..1000 : IsMax(p, m) =>
                 /\ 10 * conf - m <= 5
                 /\ m - 10 * conf <= 5

\* A probability of exactly 1.0 is reported as 100.
C13_Witness ==
    /\ Classified(1)
    /\ IsMax(Probabilities(1), 1000)
    /\ reply[1].msg.confidence = 100

\* C14: extraction depends only on the first target_len samples: for a
\* buffer longer than target_len, the tensor of the whole buffer is the
\* tensor of its first target_len samples at the same rate; and fixing the
\* length of an already fixed buffer changes nothing.
C14_OnlyFirstSamplesCount ==
    \A c \in Clients : Returned(c) =>
        /\ Len(y[c]) > 3 * sr[c] =>
              feat[c] = extract_logmel_from_array(SubSeq(y[c], 1, 3 * sr[c]), sr[c])
        /\ FixLength(FixLength(y[c], sr[c]), sr[c]) = FixLength(y[c], sr[c])

\* Four samples at the scaled rate 1 (3 samples are 3 s); the fourth, which
\* is not finite, is dropped and a tensor is returned.
C14_Witness ==
    /\ Returned(1)
    /\ sr[1] = 1 /\ y[1] = <<1, 0, 0, NaN>>
    /\ feat[1].ok /\ feat[1].sig = <<1, 0, 0>>

\* C15: the label reported is vocabulary[argmax(probabilities)] with argmax
\* the lowest index among the maximal entries: when two or more entries are
\* equal and maximal, the label of the lowest such index is reported.
C15_LowestIndexWins ==
    \A c \in Clients : Classified(c) =>
        LET p == Probabilities(c)
        IN \E i \in DOMAIN p :
              /\ reply[c].msg.emotion = label_encoder[i]
              /\ \A j \in DOMAIN p : p[j] <= p[i]
              /\ \A j \in DOMAIN p : j < i => p[j] < p[i]

\* Entries 1 and 2 tie at 0.5 above entry 0: the label of index 1.
C15_Witness ==
    /\ Classified(1)
    /\ Probabilities(1) = [i \in 0..2 |-> IF i = 0 THEN 0 ELSE 500]
    /\ reply[1].msg.emotion = label_encoder[1]
    /\ label_encoder[1] # label_encoder[2]

\* ======================================================== transport faults
Faulted(s) == exc[s] = "WebSocketDisconnect"

Leaving == {"finally", "except", "closed"}

OwnFiles(files, c) == {f \in files : f.owner = c}

\* A faulted session is on its way out.
C16_Exiting == \A s \in Sessions : Faulted(s) => pc[s] \in Leaving

\* A faulted session receives and sends nothing more, and its steps leave
\* every other client as it was.
C16_Local ==
    \A s \in Sessions : (Faulted(s) \/ Faulted(s)') =>
        /\ Faulted(s) =>
              /\ Faulted(s)'
              /\ received'[s] = received[s]
              /\ sent'[s] = sent[s]
              /\ pc'[s] \in Leaving
              /\ pc[s] = "closed" => pc'[s] = "closed"
        /\ pc'[s] # pc[s] =>
              \A t \in Clients \ {s} :
                  /\ pc'[t] = pc[t] /\ exc'[t] = exc[t]
                  /\ data'[t] = data[t] /\ temp_path'[t] = temp_path[t]
                  /\ y'[t] = y[t] /\ sr'[t] = sr[t] /\ feat'[t] = feat[t]
                  /\ reply'[t] = reply[t] /\ stages'[t] = stages[t]
                  /\ received'[t] = received[t] /\ sent'[t] = sent[t]
                  /\ OwnFiles(fs', t) = OwnFiles(fs, t)

\* C16: a transport fault on a streaming connection (receive or send raises)
\* is fatal to that session only: the session leaves its loop, receives and
\* sends nothing more, reaches the close of its connection and ends there,
\* and no other session is touched by it.
C16_FaultIsLocal ==
    /\ []C16_Exiting
    /\ [][C16_Local]_vars
    /\ \A s \in Sessions : Faulted(s) ~> (pc[s] = "closed")

\* Session 1 has ended on a fault and session 2, accepted alongside it, has
\* since been answered with a prediction.
C16_Witness ==
    /\ Faulted(1) /\ pc[1] = "closed"
    /\ received[2] # <<>> /\ sent[2] # <<>>
    /\ IsPrediction(Last(sent[2]).msg)
    /\ pc[2] = "recv"

\* ================================================================ handles
\* C17: every container opened to decode a chunk is closed before the next
\* chunk is received, after a successful decode and after a failed one
\* alike: a handler waiting for a chunk holds no open container.
C17_ContainerClosed ==
    \A s \in Sessions : pc[s] = "recv" => container[s] # "open"

=============================================================================
